---- MODULE Spec2Model ----
(***************************************************************************)
(* Model of burr/core/action.py: the Action contract layer.                *)
(*                                                                         *)
(* Python objects live in a heap (the sequence `actions`); an object's     *)
(* identity is its index.  A Python `None` held in a field that otherwise  *)
(* holds a State is the empty set {}, and a held State s is {s}.           *)
(***************************************************************************)
EXTENDS Integers, Sequences, FiniteSets, TLC

VARIABLES actions, marker, site, hist, last, cond, clast

vars == <<actions, marker, site, hist, last, cond, clast>>

(***************************************************************************)
(* Bounds of the model.                                                    *)
(***************************************************************************)
MaxInst == 3        \* Action objects ever allocated

(***************************************************************************)
(* Value universes.                                                        *)
(***************************************************************************)
None == "None"
Names == {"n1", "n2"}
Values == {1, 2}
Sites == {"s1", "s2"}

\* the States handed to run and update
InStates == {[k \in {} |-> 0], ("a" :> 2) @@ ("b" :> 2)}

\* the States the wrapped functions produce: one lacks the key b, the other
\* holds both keys
NewStates == {"a" :> 1, ("a" :> 2) @@ ("b" :> 1)}

\* result mappings returned by a wrapped function
Results == {"r" :> 1, "r" :> 2}

\* keyword arguments given to with_params / bind
EmptyDict == [k \in {} |-> 0]
ParamDicts == {"x" :> 1, ("x" :> 2) @@ ("y" :> 3)}

\* bound_params given to the constructor
CtorParams == {EmptyDict, "y" :> 1}

\* reads / writes declarations
KeyLists == {{"a"}, {"a", "b"}}

\* the function objects of the user program
Fns == {"f_good", "f_nostate", "f_varargs", "f_posonly", "f_badret"}

\* inspect.signature(fn): the parameters (name, annotation, kind) in order and
\* the return annotation
Signature(fn) ==
    CASE fn = "f_good" ->
           [params |-> << [name |-> "state", annotation |-> "State", kind |-> "POSITIONAL_OR_KEYWORD"],
                          [name |-> "x", annotation |-> "empty", kind |-> "POSITIONAL_OR_KEYWORD"],
                          [name |-> "y", annotation |-> "empty", kind |-> "KEYWORD_ONLY"] >>,
            return_annotation |-> "Tuple[dict, State]"]
      [] fn = "f_nostate" ->
           [params |-> << [name |-> "x", annotation |-> "int", kind |-> "POSITIONAL_OR_KEYWORD"] >>,
            return_annotation |-> "Tuple[dict, State]"]
      [] fn = "f_varargs" ->
           [params |-> << [name |-> "state", annotation |-> "State", kind |-> "POSITIONAL_OR_KEYWORD"],
                          [name |-> "args", annotation |-> "empty", kind |-> "VAR_POSITIONAL"] >>,
            return_annotation |-> "Tuple[dict, State]"]
      [] fn = "f_posonly" ->
           [params |-> << [name |-> "state", annotation |-> "State", kind |-> "POSITIONAL_ONLY"],
                          [name |-> "x", annotation |-> "empty", kind |-> "POSITIONAL_ONLY"] >>,
            return_annotation |-> "Tuple[dict, State]"]
      [] OTHER ->
           [params |-> << [name |-> "state", annotation |-> "State", kind |-> "POSITIONAL_OR_KEYWORD"] >>,
            return_annotation |-> "dict"]

(***************************************************************************)
(* burr.core.state.State operations used by this module.                   *)
(***************************************************************************)
\* State.subset(*keys): the State limited to the given keys; a key the State
\* does not hold is dropped
subset(state, keys) == [k \in (DOMAIN state) \cap keys |-> state[k]]

\* {**a, **b}
DictMerge(a, b) ==
    [k \in (DOMAIN a) \cup (DOMAIN b) |-> IF k \in DOMAIN b THEN b[k] ELSE a[k]]

(***************************************************************************)
(* Constructors.                                                           *)
(***************************************************************************)
\* a constructor that starts the cache as an empty State instead of None
FunctionBasedAction_empty_cache(fn, reads, writes, bound_params) ==
    [cls |-> "FunctionBasedAction", name |-> None, fn |-> fn,
     reads |-> reads, writes |-> writes, state_created |-> {EmptyDict},
     bound_params |-> bound_params, fields |-> {}]

\* FunctionBasedAction.__init__ (with Action.__init__): no name, no cached
\* State; nothing about fn is inspected
FunctionBasedAction(fn, reads, writes, bound_params) ==
    [cls |-> "FunctionBasedAction", name |-> None, fn |-> fn,
     reads |-> reads, writes |-> writes, state_created |-> {},
     bound_params |-> bound_params, fields |-> {}]

\* Result.__init__
Result(fields) ==
    [cls |-> "Result", name |-> None, fn |-> None,
     reads |-> {}, writes |-> {}, state_created |-> {},
     bound_params |-> EmptyDict, fields |-> fields]

(***************************************************************************)
(* Methods, as functions of the receiver.  Each yields the exception       *)
(* raised (None when the call returns), the receiver after the call, and   *)
(* what the call returns.                                                  *)
(***************************************************************************)
\* with_name without the guard on a name already set
with_name_rebinds(self, name) ==
    [raised |-> None, self |-> self, new |-> {[self EXCEPT !.name = name]}]

\* with_name that sets the name on the receiver and hands out a copy of it
with_name_in_place(self, name) ==
    IF self.name # None
    THEN [raised |-> "ValueError", self |-> self, new |-> {}]
    ELSE [raised |-> None, self |-> [self EXCEPT !.name = name],
          new |-> {[self EXCEPT !.name = name]}]

\* Action.with_name
with_name(self, name) ==
    IF self.name # None
    THEN [raised |-> "ValueError", self |-> self, new |-> {}]
    ELSE [raised |-> None, self |-> self,
          new |-> {[self EXCEPT !.name = name]}]

\* with_params whose merge lets the receiver's values win on key collision
with_params_receiver_wins(self, kwargs) ==
    [raised |-> None, self |-> self,
     new |-> {[self EXCEPT !.bound_params = DictMerge(kwargs, self.bound_params)]}]

\* FunctionBasedAction.with_params
with_params(self, kwargs) ==
    [raised |-> None, self |-> self,
     new |-> {[self EXCEPT !.bound_params = DictMerge(self.bound_params, kwargs)]}]

\* run that caches a State only when none is cached yet
run_keeps_first(self, result, new_state) ==
    [raised |-> None,
     self |-> IF self.state_created = {}
              THEN [self EXCEPT !.state_created = {new_state}] ELSE self,
     ret |-> {result}]

\* FunctionBasedAction.run, for a call of self._fn that returned (result, new_state)
run(self, result, new_state) ==
    [raised |-> None, self |-> [self EXCEPT !.state_created = {new_state}],
     ret |-> {result}]

\* FunctionBasedAction.update
update(self, result, state) ==
    IF self.state_created = {}
    THEN [raised |-> "ValueError", self |-> self, ret |-> {}]
    ELSE [raised |-> None, self |-> self,
          ret |-> {subset(s, self.writes) : s \in self.state_created}]

\* _validate_action_function: the exception it raises, None when fn passes
validate_action_function(fn) ==
    LET sig == Signature(fn)
        params == sig.params
    IN  IF Len(params) = 0 THEN "IndexError"
        ELSE IF params[1].name # "state" \/ params[1].annotation # "State"
        THEN "ValueError"
        ELSE IF \E k \in 2 .. Len(params) :
                   params[k].kind \notin {"POSITIONAL_OR_KEYWORD", "KEYWORD_ONLY"}
        THEN "ValueError"
        ELSE IF sig.return_annotation # "Tuple[dict, State]"
        THEN "ValueError"
        ELSE None

(***************************************************************************)
(* State of the program.                                                   *)
(*   actions  the Action objects, by identity                              *)
(*   marker   fn.action_function of each function object: {} when the      *)
(*            function was never marked, else {identity of the action}     *)
(*   site     per call site, the run it has issued and not yet followed by *)
(*            its update: the instance, the State its run produced, and    *)
(*            whether a later run on that instance has happened since      *)
(*   hist     per Action object, what was done to make it and with it: the *)
(*            bound parameters its constructor got (base), the keyword     *)
(*            arguments of each with_params since (ks), whether run has    *)
(*            returned on this very object (ran), and the object it was    *)
(*            copied from (from, 0 for a constructed object)               *)
(*   last     the last call made on Action objects and its outcome         *)
(*   cond     the Condition the program holds: {} before one is built      *)
(*   clast    the last call made on conditions and its outcome: for a run, *)
(*            the State given and whether evaluation resolved a name in    *)
(*            the builtins module                                          *)
(***************************************************************************)
Insts == 1 .. Len(actions)

NoCall ==
    [op |-> "none", inst |-> 0, fn |-> None, name |-> None, kwargs |-> EmptyDict,
     raised |-> None, new |-> 0, val |-> {}, site |-> None, own |-> {},
     arg |-> {}, ret |-> None]

\* the history of an object just constructed
Made(bound_params) ==
    [base |-> bound_params, ks |-> << >>, ran |-> FALSE, latest |-> {}, from |-> 0]

\* a new object placed in the heap
Alloc(heap, obj) == Append(heap, obj)

Init ==
    /\ actions = << >>
    /\ marker = [f \in Fns |-> {}]
    /\ site = [c \in Sites |-> {}]
    /\ hist = << >>
    /\ last = NoCall
    /\ cond = {}
    /\ clast = [op |-> "none", text |-> "", state |-> {}, raised |-> None,
                val |-> {}, builtins |-> FALSE]

CondUnchanged == UNCHANGED <<cond, clast>>

\* FunctionBasedAction(fn, reads, writes, bound_params)
Construct(fn, reads, writes, bound_params) ==
    /\ Len(actions) < MaxInst
    /\ actions' = Alloc(actions, FunctionBasedAction(fn, reads, writes, bound_params))
    /\ hist' = Append(hist, Made(bound_params))
    /\ last' = [NoCall EXCEPT !.op = "FunctionBasedAction", !.fn = fn,
                              !.new = Len(actions) + 1]
    /\ UNCHANGED <<marker, site>>
    /\ CondUnchanged

\* Result(fields)
ConstructResult(fields) ==
    /\ Len(actions) < MaxInst
    /\ actions' = Alloc(actions, Result(fields))
    /\ hist' = Append(hist, Made(EmptyDict))
    /\ last' = [NoCall EXCEPT !.op = "Result", !.new = Len(actions) + 1]
    /\ UNCHANGED <<marker, site>>
    /\ CondUnchanged

\* actions[i].with_name(name)
WithName(i, name) ==
    LET r == with_name(actions[i], name) IN
    /\ r.new # {} => Len(actions) < MaxInst
    /\ actions' = IF r.new = {} THEN [actions EXCEPT ![i] = r.self]
                  ELSE Alloc([actions EXCEPT ![i] = r.self], CHOOSE o \in r.new : TRUE)
    /\ hist' = IF r.new = {} THEN hist ELSE Append(hist, [hist[i] EXCEPT !.ran = FALSE, !.latest = {}, !.from = i])
    /\ last' = [NoCall EXCEPT !.op = "with_name", !.inst = i, !.name = name,
                              !.raised = r.raised,
                              !.new = IF r.new = {} THEN 0 ELSE Len(actions) + 1]
    /\ UNCHANGED <<marker, site>>
    /\ CondUnchanged

\* actions[i].with_params(**kwargs)
WithParams(i, kwargs) ==
    LET r == with_params(actions[i], kwargs) IN
    /\ actions[i].cls = "FunctionBasedAction"
    /\ Len(actions) < MaxInst
    /\ actions' = Alloc([actions EXCEPT ![i] = r.self], CHOOSE o \in r.new : TRUE)
    /\ hist' = Append(hist, [hist[i] EXCEPT !.ks = Append(@, kwargs), !.ran = FALSE, !.latest = {}, !.from = i])
    /\ last' = [NoCall EXCEPT !.op = "with_params", !.inst = i, !.kwargs = kwargs,
                              !.new = Len(actions) + 1]
    /\ UNCHANGED <<marker, site>>
    /\ CondUnchanged

\* the decorator returned by action(reads, writes), applied to fn
Decorate(fn, reads, writes) ==
    /\ Len(actions) < MaxInst
    /\ actions' = Alloc(actions, FunctionBasedAction(fn, reads, writes, EmptyDict))
    /\ hist' = Append(hist, Made(EmptyDict))
    /\ marker' = [marker EXCEPT ![fn] = {Len(actions) + 1}]
    /\ last' = [NoCall EXCEPT !.op = "action", !.fn = fn, !.new = Len(actions) + 1]
    /\ UNCHANGED site
    /\ CondUnchanged

\* bind that merges kwargs into the parameters of the attached action itself
Bind_in_place(fn, kwargs) ==
    /\ marker[fn] # {}
    /\ Len(actions) < MaxInst
    /\ LET i == CHOOSE m \in marker[fn] : TRUE
           r == with_params(actions[i], kwargs)
       IN  /\ actions' = [actions EXCEPT ![i] = CHOOSE o \in r.new : TRUE]
           /\ hist' = [hist EXCEPT ![i].ks = Append(@, kwargs)]
           /\ last' = [NoCall EXCEPT !.op = "bind", !.fn = fn, !.inst = i,
                                     !.kwargs = kwargs, !.new = i, !.ret = fn]
    /\ UNCHANGED <<marker, site>>
    /\ CondUnchanged

\* fn.bind(**kwargs) on a marked function; it returns fn
Bind(fn, kwargs) ==
    /\ marker[fn] # {}
    /\ Len(actions) < MaxInst
    /\ LET i == CHOOSE m \in marker[fn] : TRUE
           r == with_params(actions[i], kwargs)
       IN  /\ actions' = Alloc([actions EXCEPT ![i] = r.self], CHOOSE o \in r.new : TRUE)
           /\ hist' = Append(hist, [hist[i] EXCEPT !.ks = Append(@, kwargs), !.ran = FALSE, !.latest = {}, !.from = i])
           /\ marker' = [marker EXCEPT ![fn] = {Len(actions) + 1}]
           /\ last' = [NoCall EXCEPT !.op = "bind", !.fn = fn, !.inst = i,
                                     !.kwargs = kwargs, !.new = Len(actions) + 1,
                                     !.ret = fn]
    /\ UNCHANGED site
    /\ CondUnchanged

\* what create_action may be given: a function object, an Action object, or
\* anything else (a Condition, a number)
Arg(tag, fn, inst) == [tag |-> tag, fn |-> fn, inst |-> inst]
Args(fns) ==
    {Arg("function", f, 0) : f \in fns} \cup {Arg("Action", None, i) : i \in Insts}
        \cup {Arg("other", None, 0)}

\* create_action without the lookup of the attached action: a function
\* object is never an Action
create_action_no_lookup(action_, name) ==
    IF action_.tag # "Action"
    THEN [target |-> 0, r |-> [raised |-> "ValueError", self |-> None, new |-> {}]]
    ELSE [target |-> action_.inst, r |-> with_name(actions[action_.inst], name)]

\* create_action: the Action object it resolves action_ to (0 when it raises
\* before resolving one) and the outcome of the call
create_action(action_, name) ==
    IF action_.tag = "function" /\ marker[action_.fn] # {}
    THEN LET i == CHOOSE m \in marker[action_.fn] : TRUE
         IN  [target |-> i, r |-> with_name(actions[i], name)]
    ELSE IF action_.tag # "Action"
    THEN [target |-> 0, r |-> [raised |-> "ValueError", self |-> None, new |-> {}]]
    ELSE [target |-> action_.inst, r |-> with_name(actions[action_.inst], name)]

CreateAction(action_, name) ==
    LET c == create_action(action_, name)
        r == c.r
        i == c.target
    IN  /\ r.new # {} => Len(actions) < MaxInst
        /\ actions' = IF i = 0 THEN actions
                      ELSE IF r.new = {} THEN [actions EXCEPT ![i] = r.self]
                      ELSE Alloc([actions EXCEPT ![i] = r.self], CHOOSE o \in r.new : TRUE)
        /\ hist' = IF r.new = {} THEN hist ELSE Append(hist, [hist[i] EXCEPT !.ran = FALSE, !.latest = {}, !.from = i])
        /\ last' = [NoCall EXCEPT !.op = "create_action", !.inst = action_.inst,
                                  !.fn = action_.fn, !.name = name,
                                  !.raised = r.raised,
                                  !.new = IF r.new = {} THEN 0 ELSE Len(actions) + 1]
        /\ UNCHANGED <<marker, site>>
        /\ CondUnchanged

\* run on an object whose cache is one cell shared with the object it was
\* copied from and with its copies
Run_shared_cache(c, i, state, result, new_state) ==
    LET r == run(actions[i], result, new_state) IN
    /\ site[c] = {}
    /\ actions[i].cls = "FunctionBasedAction"
    /\ actions' = [j \in Insts |->
                     IF j = i \/ hist[j].from = i \/ hist[i].from = j
                     THEN [actions[j] EXCEPT !.state_created = {new_state}]
                     ELSE actions[j]]
    /\ site' = [d \in Sites |->
                  IF d = c
                  THEN {[inst |-> i, new_state |-> new_state, overwritten |-> FALSE]}
                  ELSE {[p EXCEPT !.overwritten = (p.overwritten \/ p.inst = i)] :
                           p \in site[d]}]
    /\ hist' = [hist EXCEPT ![i].ran = TRUE, ![i].latest = {new_state}]
    /\ last' = [NoCall EXCEPT !.op = "run", !.inst = i, !.val = r.ret, !.site = c,
                              !.own = {new_state}]
    /\ UNCHANGED marker
    /\ CondUnchanged

\* call site c calls actions[i].run(state); self._fn returns (result, new_state)
Run(c, i, state, result, new_state) ==
    LET r == run(actions[i], result, new_state) IN
    /\ site[c] = {}
    /\ actions[i].cls = "FunctionBasedAction"
    /\ actions' = [actions EXCEPT ![i] = r.self]
    /\ site' = [d \in Sites |->
                  IF d = c
                  THEN {[inst |-> i, new_state |-> new_state, overwritten |-> FALSE]}
                  ELSE {[p EXCEPT !.overwritten = (p.overwritten \/ p.inst = i)] :
                           p \in site[d]}]
    /\ hist' = [hist EXCEPT ![i].ran = TRUE, ![i].latest = {new_state}]
    /\ last' = [NoCall EXCEPT !.op = "run", !.inst = i, !.val = r.ret, !.site = c,
                              !.own = {new_state}]
    /\ UNCHANGED marker
    /\ CondUnchanged

\* a run that empties the cache before it calls self._fn, which raises
RunRaises_clears_cache(c, i, state) ==
    /\ site[c] = {}
    /\ actions[i].cls = "FunctionBasedAction"
    /\ actions' = [actions EXCEPT ![i].state_created = {}]
    /\ last' = [NoCall EXCEPT !.op = "run", !.inst = i, !.raised = "Exception",
                              !.site = c]
    /\ UNCHANGED <<marker, site, hist>>
    /\ CondUnchanged

\* call site c calls actions[i].run(state); self._fn raises
RunRaises(c, i, state) ==
    /\ site[c] = {}
    /\ actions[i].cls = "FunctionBasedAction"
    /\ last' = [NoCall EXCEPT !.op = "run", !.inst = i, !.raised = "Exception",
                              !.site = c]
    /\ UNCHANGED <<actions, marker, site, hist>>
    /\ CondUnchanged

\* call site c follows its run with update(result, state) on the same object
Update(c, result, state) ==
    /\ site[c] # {}
    /\ LET p == CHOOSE q \in site[c] : TRUE
           r == update(actions[p.inst], result, state)
       IN  /\ actions' = [actions EXCEPT ![p.inst] = r.self]
           /\ last' = [NoCall EXCEPT !.op = "update", !.inst = p.inst,
                                     !.raised = r.raised, !.val = r.ret,
                                     !.site = c, !.own = site[c]]
    /\ site' = [site EXCEPT ![c] = {}]
    /\ UNCHANGED <<marker, hist>>
    /\ CondUnchanged

\* actions[i].update(result, state) from a caller that has no run of its own
\* outstanding
UpdateAlone(i, result, state) ==
    LET r == update(actions[i], result, state) IN
    /\ actions[i].cls = "FunctionBasedAction"
    /\ actions' = [actions EXCEPT ![i] = r.self]
    /\ last' = [NoCall EXCEPT !.op = "update", !.inst = i, !.raised = r.raised,
                              !.val = r.ret]
    /\ UNCHANGED <<marker, site, hist>>
    /\ CondUnchanged

(***************************************************************************)
(* Spec: every operation on Action objects -- construction, naming,        *)
(* parameter binding, marking, the factory, and run/update from one call   *)
(* site.                                                                   *)
(***************************************************************************)
Next ==
    \/ Construct("f_good", {"a"}, {"a"}, EmptyDict)
    \/ ConstructResult({"a"})
    \/ \E i \in Insts, n \in Names : WithName(i, n)
    \/ \E i \in Insts : WithParams(i, "x" :> 1)
    \/ Decorate("f_good", {"a"}, {"a"})
    \/ \E f \in Fns : Bind(f, "x" :> 1)
    \/ \E x \in Args({"f_good", "f_badret"}), n \in Names : CreateAction(x, n)
    \/ \E i \in Insts : Run("s1", i, EmptyDict, "r" :> 1, "a" :> 1)
    \/ \E s \in InStates : Update("s1", "r" :> 1, s)

Spec == Init /\ [][Next]_vars

(***************************************************************************)
(* SpecParams: parameter binding through with_params and bind.             *)
(***************************************************************************)
NextParams ==
    \/ \E b \in CtorParams : Construct("f_good", {"a"}, {"a"}, b)
    \/ \E i \in Insts, k \in ParamDicts : WithParams(i, k)
    \/ Decorate("f_good", {"a"}, {"a"})
    \/ \E f \in Fns, k \in ParamDicts : Bind(f, k)

SpecParams == Init /\ [][NextParams]_vars

(***************************************************************************)
(* SpecRun: the run/update protocol of FunctionBasedAction objects, driven *)
(* from two call sites.                                                    *)
(***************************************************************************)
NextRun ==
    \/ \E w \in KeyLists : Construct("f_good", {"a"}, w, EmptyDict)
    \/ \E c \in Sites, i \in Insts, r \in Results, ns \in NewStates :
          Run(c, i, EmptyDict, r, ns)
    \/ \E c \in Sites, i \in Insts : RunRaises(c, i, EmptyDict)
    \/ \E c \in Sites, s \in InStates : Update(c, "r" :> 1, s)
    \/ \E i \in Insts, s \in InStates : UpdateAlone(i, "r" :> 1, s)

SpecRun == Init /\ [][NextRun]_vars

(***************************************************************************)
(* SpecSig: construction and marking over functions of every signature,    *)
(* and running what was constructed.                                       *)
(***************************************************************************)
NextSig ==
    \/ \E f \in Fns : Construct(f, {"a"}, {"a"}, EmptyDict)
    \/ \E f \in Fns : Decorate(f, {"a"}, {"a"})
    \/ \E i \in Insts, s \in InStates : Run("s1", i, s, "r" :> 1, "a" :> 1)
    \/ \E r \in Results, s \in InStates : Update("s1", r, s)

SpecSig == Init /\ [][NextSig]_vars

(***************************************************************************)
(* Condition.expr.  An expression text is one of a catalogue; Parse gives  *)
(* the tree ast.parse(text, mode="eval") builds for it.  A tree node has a *)
(* kind, a string v (operator, identifier, or type of a constant), a       *)
(* number n (value of a constant) and its children, in source order.       *)
(***************************************************************************)
Node(kind, v, n, args) == [kind |-> kind, v |-> v, n |-> n, args |-> args]
Name(id) == Node("Name", id, 0, << >>)
Num(n) == Node("Constant", "int", n, << >>)

Texts ==
    {"a == b and c > 1", "c > 1 and b == a", "a + 1", "not a", "abs(a) > 0",
     "a.real == 1", "a[0]", "[x for x in a]", "(a := 1)", "a = 1"}

\* ast.parse(text, mode="eval"): the tree, or SyntaxError for a text that is
\* no expression
Parse(text) ==
    CASE text = "a == b and c > 1" ->
           [raised |-> None,
            tree |-> Node("BoolOp", "and", 0,
                        << Node("Compare", "==", 0, << Name("a"), Name("b") >>),
                           Node("Compare", ">", 0, << Name("c"), Num(1) >>) >>)]
      [] text = "c > 1 and b == a" ->
           [raised |-> None,
            tree |-> Node("BoolOp", "and", 0,
                        << Node("Compare", ">", 0, << Name("c"), Num(1) >>),
                           Node("Compare", "==", 0, << Name("b"), Name("a") >>) >>)]
      [] text = "a + 1" ->
           [raised |-> None,
            tree |-> Node("BinOp", "+", 0, << Name("a"), Num(1) >>)]
      [] text = "not a" ->
           [raised |-> None, tree |-> Node("UnaryOp", "not", 0, << Name("a") >>)]
      [] text = "abs(a) > 0" ->
           [raised |-> None,
            tree |-> Node("Compare", ">", 0,
                        << Node("Call", "", 0, << Name("abs"), Name("a") >>),
                           Num(0) >>)]
      [] text = "a.real == 1" ->
           [raised |-> None,
            tree |-> Node("Compare", "==", 0,
                        << Node("Attribute", "real", 0, << Name("a") >>), Num(1) >>)]
      [] text = "a[0]" ->
           [raised |-> None,
            tree |-> Node("Subscript", "", 0, << Name("a"), Num(0) >>)]
      [] text = "[x for x in a]" ->
           [raised |-> None,
            tree |-> Node("ListComp", "", 0, << Name("x"), Name("x"), Name("a") >>)]
      [] text = "(a := 1)" ->
           [raised |-> None,
            tree |-> Node("NamedExpr", "", 0, << Name("a"), Num(1) >>)]
      [] OTHER ->
           [raised |-> "SyntaxError", tree |-> Name("")]

RECURSIVE Fold(_, _, _)
\* the union of F over the elements of a sequence of sets
Fold(seq, k, acc) == IF k > Len(seq) THEN acc ELSE Fold(seq, k + 1, acc \cup seq[k])

\* NameVisitor: the ids of the Name nodes anywhere in the tree
RECURSIVE NameVisitor(_)
NameVisitor(tree) ==
    IF tree.kind = "Name" THEN {tree.v}
    ELSE Fold([k \in 1 .. Len(tree.args) |-> NameVisitor(tree.args[k])], 1, {})

\* the kinds of the nodes of a tree
RECURSIVE NodeKinds(_)
NodeKinds(tree) ==
    {tree.kind}
        \cup Fold([k \in 1 .. Len(tree.args) |-> NodeKinds(tree.args[k])], 1, {})

\* the names Python's builtins module binds, among those the catalogue uses
Builtins == {"abs"}

\* values of an evaluation: t is the Python type, or the exception raised;
\* builtins tells whether a name was resolved in the builtins module
Val(t, n, builtins) == [t |-> t, n |-> n, builtins |-> builtins]
IsError(v) == v.t \in {"NameError", "TypeError", "AttributeError"}
IsNumber(v) == v.t \in {"int", "bool"}
Truthy(v) == IF IsNumber(v) THEN v.n # 0 ELSE TRUE
Bool(b, builtins) == Val("bool", IF b THEN 1 ELSE 0, builtins)

\* eval(compile(tree), {}, state.get_all()): a name is looked up in the State
\* snapshot (the locals), then in the empty globals, then in the builtins
RECURSIVE Eval(_, _)
Eval(tree, locals) ==
    LET arg(k) == Eval(tree.args[k], locals)
        via(k) == \E j \in 1 .. k : arg(j).builtins
    IN
    CASE tree.kind = "Constant" -> Val(tree.v, tree.n, FALSE)
      [] tree.kind = "Name" ->
           IF tree.v \in DOMAIN locals THEN Val("int", locals[tree.v], FALSE)
           ELSE IF tree.v \in Builtins THEN Val("builtin_function", 0, TRUE)
           ELSE Val("NameError", 0, FALSE)
      [] tree.kind = "UnaryOp" ->
           IF IsError(arg(1)) THEN arg(1) ELSE Bool(~Truthy(arg(1)), via(1))
      [] tree.kind = "BoolOp" ->
           IF IsError(arg(1)) THEN arg(1)
           ELSE IF Truthy(arg(1)) = (tree.v = "or") THEN arg(1)
           ELSE [arg(2) EXCEPT !.builtins = via(2)]
      [] tree.kind = "Compare" ->
           IF IsError(arg(1)) THEN arg(1)
           ELSE IF IsError(arg(2)) THEN [arg(2) EXCEPT !.builtins = via(2)]
           ELSE IF tree.v = "=="
           THEN Bool(IF IsNumber(arg(1)) /\ IsNumber(arg(2))
                     THEN arg(1).n = arg(2).n ELSE arg(1).t = arg(2).t, via(2))
           ELSE IF IsNumber(arg(1)) /\ IsNumber(arg(2))
           THEN Bool(arg(1).n > arg(2).n, via(2))
           ELSE Val("TypeError", 0, via(2))
      [] tree.kind = "BinOp" ->
           IF IsError(arg(1)) THEN arg(1)
           ELSE IF IsError(arg(2)) THEN [arg(2) EXCEPT !.builtins = via(2)]
           ELSE IF IsNumber(arg(1)) /\ IsNumber(arg(2))
           THEN Val("int", arg(1).n + arg(2).n, via(2))
           ELSE Val("TypeError", 0, via(2))
      [] tree.kind = "Call" ->
           IF IsError(arg(1)) THEN arg(1)
           ELSE IF IsError(arg(2)) THEN [arg(2) EXCEPT !.builtins = via(2)]
           ELSE IF arg(1).t = "builtin_function" /\ IsNumber(arg(2))
           THEN Val("int", IF arg(2).n < 0 THEN 0 - arg(2).n ELSE arg(2).n, via(2))
           ELSE Val("TypeError", 0, via(2))
      [] tree.kind = "Attribute" ->
           IF IsError(arg(1)) THEN arg(1)
           ELSE IF IsNumber(arg(1)) /\ tree.v = "real"
           THEN Val("int", arg(1).n, via(1))
           ELSE Val("AttributeError", 0, via(1))
      [] tree.kind = "Subscript" ->
           IF IsError(arg(1)) THEN arg(1)
           ELSE IF IsError(arg(2)) THEN [arg(2) EXCEPT !.builtins = via(2)]
           ELSE Val("TypeError", 0, via(2))
      [] tree.kind = "ListComp" ->
           IF IsError(arg(3)) THEN arg(3) ELSE Val("TypeError", 0, arg(3).builtins)
      [] OTHER -> arg(2)

\* Condition.expr: the Condition built for a text (keys, resolver, name), or
\* the exception of ast.parse
expr(text) ==
    LET p == Parse(text) IN
    IF p.raised # None THEN [raised |-> p.raised, new |-> {}]
    ELSE [raised |-> None,
          new |-> {[keys |-> NameVisitor(p.tree), resolver |-> p.tree,
                    kwargs |-> EmptyDict, name |-> text, by |-> "expr"]}]

\* State.get(key): the value held under key as {value}, the default None as {}
get(state, key) == IF key \in DOMAIN state THEN {state[key]} ELSE {}

\* the keyword arguments given to when: a value v is {v}, the value None is {}
WhenDicts ==
    {("a" :> {1}) @@ ("b" :> {2}), "a" :> {1}, "c" :> {}, ("a" :> {2}) @@ ("c" :> {})}

\* condition_func of a when that is true as soon as one pair matches
when_func_any(kwargs, state) == \E k \in DOMAIN kwargs : get(state, k) = kwargs[k]

\* Condition.when.condition_func: false at the first pair whose value differs
\* from state.get(key), true when there is none
when_func(kwargs, state) == \A k \in DOMAIN kwargs : get(state, k) = kwargs[k]

\* Condition.when: keys are the names of the keyword arguments (the name,
\* the sorted "k=v" pairs, is not modelled)
when(kwargs) ==
    [keys |-> DOMAIN kwargs, resolver |-> Name(""), kwargs |-> kwargs,
     name |-> "when", by |-> "when"]

\* a default condition that never lets a transition proceed
default_false ==
    [keys |-> {}, resolver |-> Node("Constant", "bool", 0, << >>),
     kwargs |-> EmptyDict, name |-> "default", by |-> "default"]

\* default = Condition([], lambda _: True, name="default")
default ==
    [keys |-> {}, resolver |-> Node("Constant", "bool", 1, << >>),
     kwargs |-> EmptyDict, name |-> "default", by |-> "default"]

\* Condition.run: {Condition.KEY: self._resolver(state)}, the resolver being
\* the condition_func of expr, the condition_func of when, or the lambda of
\* default
Condition_run(self, state) ==
    LET v == IF self.by = "when"
             THEN Bool(when_func(self.kwargs, state), FALSE)
             ELSE Eval(self.resolver, state)
    IN
    IF IsError(v) THEN [raised |-> v.t, ret |-> {}, builtins |-> v.builtins]
    ELSE [raised |-> None, ret |-> {"PROCEED" :> [t |-> v.t, n |-> v.n]},
          builtins |-> v.builtins]

\* Condition.reads
Condition_reads(self) == self.keys

\* the State snapshots conditions are run on
CondStates == UNION {[D -> Values] : D \in SUBSET {"a", "b", "c"}}

ActionsUnchanged == UNCHANGED <<actions, marker, site, hist, last>>

\* cond = Condition.expr(text)
Expr(text) ==
    LET r == expr(text) IN
    /\ cond' = IF r.new = {} THEN cond ELSE r.new
    /\ clast' = [op |-> "expr", text |-> text, state |-> {}, raised |-> r.raised,
                 val |-> {}, builtins |-> FALSE]
    /\ ActionsUnchanged

\* cond = Condition.when(**kwargs)
When(kwargs) ==
    /\ cond' = {when(kwargs)}
    /\ clast' = [op |-> "when", text |-> "", state |-> {}, raised |-> None,
                 val |-> {}, builtins |-> FALSE]
    /\ ActionsUnchanged

\* cond = default, the module's singleton
UseDefault ==
    /\ cond' = {default}
    /\ clast' = [op |-> "default", text |-> "", state |-> {}, raised |-> None,
                 val |-> {}, builtins |-> FALSE]
    /\ ActionsUnchanged

\* cond.run(state)
CondRun(state) ==
    /\ cond # {}
    /\ LET r == Condition_run(CHOOSE c \in cond : TRUE, state) IN
       clast' = [op |-> "run", text |-> "", state |-> {state},
                 raised |-> r.raised, val |-> r.ret, builtins |-> r.builtins]
    /\ UNCHANGED cond
    /\ ActionsUnchanged

(***************************************************************************)
(* SpecCond: building conditions (from expression texts, from equality     *)
(* pairs, the default) and running them.                                   *)
(***************************************************************************)
NextCond ==
    \/ \E t \in Texts : Expr(t)
    \/ \E k \in WhenDicts : When(k)
    \/ UseDefault
    \/ \E s \in CondStates : CondRun(s)

SpecCond == Init /\ [][NextCond]_vars

(***************************************************************************)
(* Result: the action that reads fields of the State and writes nothing.   *)
(***************************************************************************)
\* State.get_all(): the snapshot of the whole mapping
get_all(state) == state

\* the fields given to Result: z is a key no State holds
ResultFields == {{"a", "b"}, {"c", "z"}, {}}

\* Result.run that returns the whole snapshot
Result_run_all(self, state) ==
    [raised |-> None, self |-> self, ret |-> {get_all(state)}]

\* Result.run: {k: v for k, v in state.get_all().items() if k in self._fields}
Result_run(self, state) ==
    [raised |-> None, self |-> self,
     ret |-> {[k \in {j \in DOMAIN get_all(state) : j \in self.fields} |->
                 get_all(state)[k]]}]

\* Result.update: return state
Result_update(self, result, state) ==
    [raised |-> None, self |-> self, ret |-> {state}]

\* Result.writes: return []
Result_writes(self) == {}

\* actions[i].run(state) on a Result
ResultRun(i, state) ==
    LET r == Result_run(actions[i], state) IN
    /\ actions[i].cls = "Result"
    /\ actions' = [actions EXCEPT ![i] = r.self]
    /\ last' = [NoCall EXCEPT !.op = "result_run", !.inst = i,
                              !.raised = r.raised, !.val = r.ret, !.arg = {state}]
    /\ UNCHANGED <<marker, site, hist>>
    /\ CondUnchanged

\* actions[i].update(result, state) on a Result
ResultUpdate(i, result, state) ==
    LET r == Result_update(actions[i], result, state) IN
    /\ actions[i].cls = "Result"
    /\ actions' = [actions EXCEPT ![i] = r.self]
    /\ last' = [NoCall EXCEPT !.op = "result_update", !.inst = i,
                              !.raised = r.raised, !.val = r.ret, !.arg = {state}]
    /\ UNCHANGED <<marker, site, hist>>
    /\ CondUnchanged

(***************************************************************************)
(* SpecResult: building Results over several field lists and calling run   *)
(* and update on them.                                                     *)
(***************************************************************************)
NextResult ==
    \/ \E f \in ResultFields : ConstructResult(f)
    \/ \E i \in Insts, s \in CondStates : ResultRun(i, s)
    \/ \E i \in Insts, r \in Results, s \in CondStates : ResultUpdate(i, r, s)

SpecResult == Init /\ [][NextResult]_vars

(***************************************************************************)
(* SpecBind: marking functions, binding parameters on the marked function  *)
(* and handing it to the factory, in any order.                            *)
(***************************************************************************)
MarkedFns == {"f_good", "f_badret"}

NextBind ==
    \/ \E f \in MarkedFns : Decorate(f, {"a"}, {"a"})
    \/ \E f \in MarkedFns, k \in ParamDicts : Bind(f, k)
    \/ \E f \in MarkedFns, n \in Names : CreateAction(Arg("function", f, 0), n)

SpecBind == Init /\ [][NextBind]_vars

(***************************************************************************)
(* SpecDerive: objects derived from one another by with_name and           *)
(* with_params, with run and update called on any of them in any order: a  *)
(* call site that runs an object and then updates it, and callers that     *)
(* update an object without a run of their own.                            *)
(***************************************************************************)
NextDerive ==
    \/ Construct("f_good", {"a"}, {"a", "b"}, EmptyDict)
    \/ \E i \in Insts : WithName(i, "n1")
    \/ \E i \in Insts : WithParams(i, "x" :> 1)
    \/ \E i \in Insts, ns \in NewStates : Run("s1", i, EmptyDict, "r" :> 1, ns)
    \/ Update("s1", "r" :> 1, EmptyDict)
    \/ \E i \in Insts : UpdateAlone(i, "r" :> 1, EmptyDict)

SpecDerive == Init /\ [][NextDerive]_vars

(***************************************************************************)
(* Properties.                                                             *)
(***************************************************************************)

\* C1: with_name(n) on an Action whose name is bound raises ValueError and
\* returns nothing (no object is made); on an Action whose name is unbound it
\* returns a new Action whose name is n.
C1_WithNameOutcome ==
    [][\A i \in Insts :
          (last'.op = "with_name" /\ last'.inst = i) =>
              IF actions[i].name # None
              THEN /\ last'.raised = "ValueError"
                   /\ last'.new = 0
                   /\ Len(actions') = Len(actions)
              ELSE /\ last'.raised = None
                   /\ last'.new = Len(actions) + 1
                   /\ Len(actions') = Len(actions) + 1
                   /\ actions'[last'.new].name = last'.name]_vars

\* a named Action, itself made by naming an unnamed one, has just refused a
\* with_name
C1_Witness ==
    /\ last.op = "with_name"
    /\ last.raised = "ValueError"
    /\ actions[last.inst].name \in Names
    /\ \E j \in Insts : j < last.inst /\ actions[j].name = None

\* C2: no operation changes the name of an existing Action object, and no
\* object disappears: an unnamed object stays unnamed, a bound name stays.
C2_NameNeverChanges ==
    [][/\ Len(actions') >= Len(actions)
       /\ \A i \in Insts : actions'[i].name = actions[i].name]_vars

\* one unnamed template has been named twice, under two names, and is still
\* unnamed
C2_Witness ==
    \E i, j, k \in Insts :
        /\ actions[i].name = None
        /\ actions[j] = [actions[i] EXCEPT !.name = "n1"]
        /\ actions[k] = [actions[i] EXCEPT !.name = "n2"]
        /\ last.op = "with_name" /\ last.inst = i /\ last.new = k

\* C3: update on a constructed FunctionBasedAction on which run has never
\* returned raises ValueError and returns no State.
C3_UpdateBeforeRun ==
    (last.op = "update" /\ hist[last.inst].from = 0 /\ ~hist[last.inst].ran)
        => (last.raised = "ValueError" /\ last.val = {})

\* update has just been refused on an object that was never run, while
\* another object had been run
C3_Witness ==
    /\ last.op = "update"
    /\ hist[last.inst].from = 0 /\ ~hist[last.inst].ran
    /\ last.raised = "ValueError"
    /\ \E j \in Insts : hist[j].ran

\* C4 (as claimed): the cached State is consumed by update, so an update that
\* directly follows a successful update on the same object raises ValueError.
C4_CacheSingleUse ==
    [][(/\ last.op = "update" /\ last.raised = None
        /\ last'.op = "update" /\ last'.inst = last.inst)
          => last'.raised = "ValueError"]_vars

\* the run of the call site now updating was the last run on its object
OwnRunIsLatest == \A p \in last.own : ~p.overwritten

\* C5 (as claimed): when run/update pairs do not interleave, run returns the
\* result mapping alone and the State update returns holds exactly the
\* declared write keys, each with the value the new_state of that run holds.
C5_UpdateHoldsExactlyWrites ==
    /\ (last.op = "run" /\ last.raised = None) => last.val \subseteq Results
    /\ (last.op = "update" /\ last.site # None /\ last.raised = None /\ OwnRunIsLatest)
         => \A p \in last.own : \A v \in last.val :
               /\ DOMAIN v = actions[last.inst].writes
               /\ \A k \in DOMAIN v : k \in DOMAIN p.new_state /\ v[k] = p.new_state[k]

\* C6: an update whose own run is still the last run on the object returns
\* that run's State (restricted to writes); an update whose run was followed
\* by another call site's run on the same object, that site's update still
\* outstanding, returns the State of that later run instead of its own.
C6_InterleavedRunsShareCache ==
    (last.op = "update" /\ last.site # None /\ last.raised = None) =>
        \A p \in last.own :
           /\ ~p.overwritten =>
                 last.val = {subset(p.new_state, actions[last.inst].writes)}
           /\ p.overwritten =>
                 \A d \in Sites : \A q \in site[d] :
                    (q.inst = last.inst /\ ~q.overwritten) =>
                        last.val = {subset(q.new_state, actions[last.inst].writes)}

\* run(s1), run(s2), update(r1, s1): the first update has returned the second
\* run's State, which differs from the State of its own run
C6_Witness ==
    /\ last.op = "update" /\ last.site # None /\ last.raised = None
    /\ \E p \in last.own : \E d \in Sites : \E q \in site[d] :
          /\ p.overwritten /\ q.inst = last.inst /\ ~q.overwritten
          /\ last.val = {subset(q.new_state, actions[last.inst].writes)}
          /\ last.val # {subset(p.new_state, actions[last.inst].writes)}

\* C7 (as claimed): construction validates the signature of the wrapped
\* function, so every FunctionBasedAction object that exists wraps a function
\* that passes _validate_action_function.
C7_ConstructionValidates ==
    \A i \in Insts :
        actions[i].cls = "FunctionBasedAction"
            => validate_action_function(actions[i].fn) = None

\* what create_action was given, read back from the record of the call
GivenFunction == last'.fn # None
GivenAction == last'.inst # 0

\* C9 (as claimed): create_action raises ValueError on a function that was
\* never marked; on a marked function or an Action object it returns an
\* Action whose name is the name supplied.
C9_FactoryAsClaimed ==
    [][last'.op = "create_action" =>
         /\ (GivenFunction /\ marker[last'.fn] = {})
               => (last'.raised = "ValueError" /\ last'.new = 0)
         /\ ((GivenFunction /\ marker[last'.fn] # {}) \/ GivenAction)
               => /\ last'.raised = None
                  /\ last'.new = Len(actions) + 1
                  /\ actions'[last'.new].name = last'.name]_vars

\* C9 (amended): create_action raises ValueError on anything that is neither
\* a marked function nor an Action object, and on an Action object (given or
\* attached to the marked function) whose name is already bound; on a marked
\* function or an Action object whose name is unbound it returns a new Action
\* whose name is the name supplied.
C9_Factory ==
    [][last'.op = "create_action" =>
         LET resolved ==
                 IF GivenFunction /\ marker[last'.fn] # {} THEN marker[last'.fn]
                 ELSE IF GivenAction THEN {last'.inst}
                 ELSE {}
         IN  /\ resolved = {} => (last'.raised = "ValueError" /\ last'.new = 0)
             /\ \A i \in resolved :
                   IF actions[i].name # None
                   THEN /\ last'.raised = "ValueError"
                        /\ last'.new = 0
                        /\ Len(actions') = Len(actions)
                   ELSE /\ last'.raised = None
                        /\ last'.new = Len(actions) + 1
                        /\ actions'[last'.new].name = last'.name]_vars

\* the factory has refused an Action object that already has a name, one
\* that was itself copied from the action attached to a marked function
C9_Witness ==
    /\ last.op = "create_action"
    /\ last.inst # 0
    /\ actions[last.inst].name \in Names
    /\ last.raised = "ValueError"
    /\ \E f \in Fns : marker[f] = {hist[last.inst].from}

\* the left-to-right merge of a sequence of keyword-argument dicts onto base
RECURSIVE MergeAll(_, _)
MergeAll(base, ks) ==
    IF ks = << >> THEN base
    ELSE MergeAll(DictMerge(base, Head(ks)), Tail(ks))

\* C10: the bound parameters of every object are the left-to-right merge of
\* the parameters its construction was given with the keyword arguments of
\* the with_params calls that led to it, later values winning; so neither the
\* receiver of a with_params nor any intermediate object ever changes.
C10_WithParamsMerges ==
    \A i \in Insts :
        actions[i].bound_params = MergeAll(hist[i].base, hist[i].ks)

\* a.with_params(x=1).with_params(x=2, y=3): the last object holds
\* {x: 2, y: 3}, the one before it {x: 1}, and a holds nothing
C10_Witness ==
    \E a, b, c \in Insts :
        /\ hist[a].from = 0 /\ hist[b].from = a /\ hist[c].from = b
        /\ hist[c].ks = << "x" :> 1, ("x" :> 2) @@ ("y" :> 3) >>
        /\ actions[a].bound_params = EmptyDict
        /\ actions[b].bound_params = ("x" :> 1)
        /\ actions[c].bound_params = ("x" :> 2) @@ ("y" :> 3)

\* the node kinds of the boundary contract: identifiers, literals, and
\* comparison, boolean and arithmetic operators
SafeKinds == {"Name", "Constant", "Compare", "BoolOp", "UnaryOp", "BinOp"}

\* C8 (as claimed): every Condition built by expr holds a tree of identifiers,
\* literals and comparison, boolean and arithmetic operators only -- a text
\* with a call, an attribute access, an index, a comprehension or an
\* assignment is rejected -- and running it never resolves a name in the
\* builtins.
C8_ExprIsSandboxed ==
    /\ \A c \in cond : NodeKinds(c.resolver) \subseteq SafeKinds
    /\ clast.op = "run" => ~clast.builtins


\* C11: whenever run returns on a Condition (built by when, by expr, or the
\* default), the result has exactly the key PROCEED and its value is a boolean
C11_RunYieldsBool ==
    (clast.op = "run" /\ clast.raised = None)
        => /\ clast.val # {}
           /\ \A d \in clast.val :
                  DOMAIN d = {"PROCEED"} /\ d["PROCEED"].t = "bool"


RECURSIVE FreeNames(_)
FreeNames(tree) ==
    CASE tree.kind = "Name" -> {tree.v}
      [] tree.kind = "ListComp" ->
           (FreeNames(tree.args[1]) \ FreeNames(tree.args[2]))
               \cup FreeNames(tree.args[3])
      [] tree.kind = "NamedExpr" -> FreeNames(tree.args[2])
      [] OTHER ->
           Fold([k \in 1 .. Len(tree.args) |-> FreeNames(tree.args[k])], 1, {})

\* C13: the reads of a Condition built by expr are exactly the free
\* identifiers of the parsed tree, as a set (no order, no repetition), and
\* nothing else
C13_ExprReadsFreeNames ==
    \A c \in cond : c.by = "expr" => Condition_reads(c) = FreeNames(c.resolver)


\* C15: the default condition reads nothing and its run yields PROCEED true
\* on every State
C15_DefaultAlwaysProceeds ==
    \A c \in cond :
        c.by = "default" =>
            /\ Condition_reads(c) = {}
            /\ clast.op = "run" =>
                 /\ clast.raised = None
                 /\ clast.val = {"PROCEED" :> [t |-> "bool", n |-> 1]}

\* the default condition was run on a State that holds all three keys
C15_Witness ==
    /\ clast.op = "run"
    /\ \E c \in cond : c.by = "default"
    /\ \E s \in clast.state : DOMAIN s = {"a", "b", "c"}
    /\ clast.val # {}


\* C14: a Result has no side effect: run returns exactly the entries of the
\* State whose key is among the fields (a field the State lacks is left
\* out), writes is empty, update returns the State it was given, and no
\* object changes in either call
C14_ResultIsPure ==
    [][ /\ last'.op = "result_run" =>
             /\ actions' = actions
             /\ last'.raised = None
             /\ Result_writes(actions'[last'.inst]) = {}
             /\ \A s \in last'.arg :
                   last'.val =
                     {[k \in DOMAIN s \cap actions[last'.inst].fields |-> s[k]]}
        /\ last'.op = "result_update" =>
             /\ actions' = actions
             /\ last'.raised = None
             /\ last'.val = last'.arg ]_vars

\* Result(["c", "z"]).run on a State that holds a, b and c returned the one
\* entry c
C14_Witness ==
    /\ last.op = "result_run"
    /\ actions[last.inst].fields = {"c", "z"}
    /\ \E s \in last.arg : DOMAIN s = {"a", "b", "c"}
    /\ \E v \in last.val : DOMAIN v = {"c"}


\* C16: bind on a marked function attaches a new FunctionBasedAction whose
\* parameters are the previous ones overridden by kwargs and returns the
\* function itself; create_action on the function then yields an Action with
\* the parameters of the action attached at that moment; every object that
\* existed before either call keeps its parameters
C16_BindRebindsMarker ==
    [][ /\ last'.op = "bind" =>
             LET f == last'.fn
                 kw == last'.kwargs
             IN  /\ last'.ret = f
                 /\ marker'[f] = {Len(actions) + 1}
                 /\ \A g \in DOMAIN marker : g # f => marker'[g] = marker[g]
                 /\ \A i \in Insts : actions'[i] = actions[i]
                 /\ \A old \in marker[f] :
                       LET was == actions[old].bound_params IN
                       actions'[Len(actions) + 1].bound_params =
                           [k \in DOMAIN was \cup DOMAIN kw |->
                               IF k \in DOMAIN kw THEN kw[k] ELSE was[k]]
        /\ (last'.op = "create_action" /\ last'.raised = None) =>
             /\ marker' = marker
             /\ \A i \in Insts : actions'[i] = actions[i]
             /\ \A at \in marker[last'.fn] :
                   /\ actions'[last'.new].bound_params = actions[at].bound_params
                   /\ actions'[last'.new].name = last'.name ]_vars

\* create_action on a function whose marker was rebound by bind returned an
\* Action that carries the bound parameters
C16_Witness ==
    /\ last.op = "create_action"
    /\ last.raised = None
    /\ \E at \in marker[last.fn] :
          /\ hist[at].ks # << >>
          /\ actions[last.new].bound_params = actions[at].bound_params
          /\ actions[last.new].bound_params # EmptyDict


\* C17: on every FunctionBasedAction object, however it was obtained, an
\* update that no run on that very object preceded fails with ValueError
\* and returns nothing
C17_UpdateNeedsOwnRun ==
    (last.op = "update" /\ ~hist[last.inst].ran)
        => (last.raised = "ValueError" /\ last.val = {})


\* C18: a run on one object leaves every other object as it was, the object
\* it was copied from and its copies included, so what update returns on
\* them afterwards is what it returned before
C18_CachesIndependent ==
    [][ (last'.op = "run" /\ last'.raised = None) =>
            \A j \in Insts \ {last'.inst} :
                /\ actions'[j] = actions[j]
                /\ update(actions'[j], "r" :> 1, EmptyDict)
                       = update(actions[j], "r" :> 1, EmptyDict) ]_vars

\* b was copied from a after a had run, then b ran on its own, and the two
\* hold different cached States
C18_Witness ==
    /\ last.op = "run"
    /\ \E a, b \in Insts :
          /\ hist[b].from = a
          /\ last.inst = b
          /\ hist[a].ran /\ hist[b].ran
          /\ actions[a].state_created # {}
          /\ actions[a].state_created = hist[a].latest
          /\ actions[b].state_created = hist[b].latest
          /\ actions[a].state_created # actions[b].state_created


\* C19: when the wrapped function raises during run, the caller gets that
\* exception and every object (cache, bound parameters, name) is as it was
\* before the call; an update that follows on the same object returns the
\* State of its last successful run restricted to the writes, or fails with
\* ValueError when it never ran successfully
C19_FailedRunChangesNothing ==
    [][ /\ (last'.op = "run" /\ last'.raised # None) =>
             /\ last'.raised = "Exception"
             /\ last'.val = {}
             /\ actions' = actions
        /\ (last.op = "run" /\ last.raised # None
               /\ last'.op = "update" /\ last'.inst = last.inst) =>
             LET i == last.inst IN
             IF hist[i].latest = {}
             THEN last'.raised = "ValueError" /\ last'.val = {}
             ELSE /\ last'.raised = None
                  /\ last'.val = {subset(s, actions[i].writes) : s \in hist[i].latest}
      ]_vars

\* a run has just failed on an object that had run successfully before, and
\* the object still holds the State of that successful run
C19_Witness ==
    /\ last.op = "run"
    /\ last.raised = "Exception"
    /\ hist[last.inst].latest # {}
    /\ actions[last.inst].state_created = hist[last.inst].latest

====
